---- MODULE Spec2Model ----
(***************************************************************************)
(* AutopkgVendorer (src/SharedProcessors/AutopkgVendorer.py): the license  *)
(* gate, the recursive walk over the remote contents API, the per-file     *)
(* pipeline and the summary.                                               *)
(*                                                                         *)
(* A Python string is a sequence of tokens.  The tokens are chosen so that *)
(* the text ".recipe" occurs in a string exactly where the token ".recipe" *)
(* does, "/" exactly where the token "/" does, and a line break exactly    *)
(* where LF or CR does; str.replace, str.endswith, os.path.join and        *)
(* str.splitlines are then computed on tokens as Python computes them on   *)
(* characters.                                                             *)
(***************************************************************************)
EXTENDS Integers, Sequences, FiniteSets, TLC

VARIABLES
    env,        \* self.env: the processor's input variables (fixed for a run)
    pc,         \* position of main: "start", "walk", "done", "failed"
    stack,      \* call stack of vendor_path frames, innermost last
    files,      \* the file system: written path -> contents
    dirs,       \* the file system: directories that exist
    events,     \* what the run did to the outside world, in order
    remote,     \* the entries the listings of the walk returned so far
    summary,    \* env["autopkg_vendorer_summary_result"]: whether set, and its paths
    error,      \* the exception that ended the run, or ""
    root,       \* what call_api answers for the repository root in this run
    ic          \* insert_comment call under test: its arguments and result

vars == <<env, root, pc, stack, files, dirs, events, remote, summary, error, ic>>

\* None where a string is expected: no Python string is this token sequence
None == <<"<None>">>
LF == "\n"
CR == "\r"

-----------------------------------------------------------------------------
(* Bounds *)

\* most entries the listings of one run return, all directories together (a
\* nested directory is an entry, so this bounds the depth of the tree as well)
MaxItems == 3
\* longest content handed to insert_comment in InsertSpec
MaxLen == 5

-----------------------------------------------------------------------------
(* Python string and path primitives *)

RECURSIVE Concat(_)
\* ''.join(parts)
Concat(parts) ==
    IF parts = <<>> THEN <<>> ELSE Head(parts) \o Concat(Tail(parts))

\* s.endswith(suffix)
EndsWith(s, suffix) ==
    /\ Len(s) >= Len(suffix)
    /\ SubSeq(s, Len(s) - Len(suffix) + 1, Len(s)) = suffix

RECURSIVE Replace(_, _, _)
\* s.replace(old, new): every non-overlapping occurrence, left to right
Replace(s, old, new) ==
    IF Len(s) < Len(old) \/ old = <<>> THEN s
    ELSE IF SubSeq(s, 1, Len(old)) = old
         THEN new \o Replace(SubSeq(s, Len(old) + 1, Len(s)), old, new)
         ELSE <<Head(s)>> \o Replace(Tail(s), old, new)

\* os.path.join(a, b)
PathJoin(a, b) ==
    IF b # <<>> /\ Head(b) = "/" THEN b
    ELSE IF a = <<>> \/ a[Len(a)] = "/" THEN a \o b
    ELSE a \o <<"/">> \o b

\* os.path.dirname(p)
Dirname(p) ==
    LET slashes == {i \in 1..Len(p) : p[i] = "/"}
    IN  IF slashes = {} THEN <<>>
        ELSE LET i == CHOOSE k \in slashes : \A j \in slashes : j <= k
                 head == SubSeq(p, 1, i)
             IN  IF \A j \in 1..i : p[j] = "/" THEN head
                 ELSE SubSeq(p, 1, i - 1)

\* d and the directories above it: what os.makedirs(d) walks through
Ancestors(d) ==
    {SubSeq(d, 1, i) : i \in {k \in 1..Len(d) : k = Len(d) \/ d[k + 1] = "/"}}

RECURSIVE SplitFrom(_, _, _)
\* str.splitlines(keepends=True), scanning s from position 1: cur is the line
\* being read, acc the lines already closed.  "\r\n" closes a line as one break.
SplitFrom(s, cur, acc) ==
    IF s = <<>> THEN (IF cur = <<>> THEN acc ELSE Append(acc, cur))
    ELSE IF Head(s) = CR /\ Len(s) >= 2 /\ s[2] = LF
         THEN SplitFrom(Tail(Tail(s)), <<>>, Append(acc, cur \o <<CR, LF>>))
    ELSE IF Head(s) \in {LF, CR}
         THEN SplitFrom(Tail(s), <<>>, Append(acc, Append(cur, Head(s))))
    ELSE SplitFrom(Tail(s), Append(cur, Head(s)), acc)

SplitLines(s) == SplitFrom(s, <<>>, <<>>)

-----------------------------------------------------------------------------
(* Headers *)

Repo == <<"org/tools">>
CommitSha == <<"abc123">>
\* datetime.utcnow() formatted: one opaque token
Timestamp == <<"<utcnow>">>

\* a call's outcome: the value it returns, or the exception it raises
Return(v) == [err |-> "", val |-> v]
Raise(e) == [err |-> e, val |-> <<>>]

generate_comment_header(repo, path, commit_sha, style) ==
    LET github_url == <<"https://github.com/">> \o repo \o <<"/blob/">>
                        \o commit_sha \o <<"/">> \o path
    IN  IF style = <<"xml">>
        THEN Return(<<"<!--", LF, "Downloaded from ">> \o github_url
               \o <<LF, "Commit: ">> \o commit_sha
               \o <<LF, "Downloaded at: ">> \o Timestamp
               \o <<LF, "-->", LF, LF>>)
        ELSE IF style = <<"yaml">>
        THEN Return(<<"# Downloaded from ">> \o github_url
               \o <<LF, "# Commit: ">> \o commit_sha
               \o <<LF, "# Downloaded at: ">> \o Timestamp
               \o <<LF, LF>>)
        ELSE Raise("ProcessorError: Invalid comment style")

\* faulty variant: the header goes after the first 2 lines
insert_comment_after2(header, content, style) ==
    LET lines == SplitLines(content)
    IN  IF style = <<"xml">> /\ Len(lines) >= 3
        THEN Concat(SubSeq(lines, 1, 2)) \o header
               \o Concat(SubSeq(lines, 3, Len(lines)))
        ELSE header \o content

insert_comment(header, content, style) ==
    LET lines == SplitLines(content)
    IN  IF style = <<"xml">> /\ Len(lines) >= 3
        THEN Concat(SubSeq(lines, 1, 3)) \o header
               \o Concat(SubSeq(lines, 4, Len(lines)))
        ELSE header \o content

-----------------------------------------------------------------------------
(* Recipes: property lists and their YAML form *)

\* a parsed property list is a function from some of these keys to strings
Keys == {"Identifier", "Name"}
\* plistlib.dumps writes the keys sorted (sort_keys=True)
SortedKeys == <<"Identifier", "Name">>

RECURSIVE DictLines(_, _)
DictLines(plist_data, keys) ==
    IF keys = <<>> THEN <<>>
    ELSE (IF Head(keys) \in DOMAIN plist_data
          THEN <<"<key>", Head(keys), "</key>", LF,
                 "<string>">> \o plist_data[Head(keys)] \o <<"</string>", LF>>
          ELSE <<>>) \o DictLines(plist_data, Tail(keys))

\* plistlib.dumps(plist_data).decode("utf-8")
plist_dumps(plist_data) ==
    <<"<?xml?>", LF, "<!DOCTYPE plist>", LF, "<plist>", LF, "<dict>", LF>>
      \o DictLines(plist_data, SortedKeys) \o <<"</dict>", LF, "</plist>", LF>>

\* the records the remote recipes hold
SourceRecords ==
    { <<>>,
      [k \in {"Identifier"} |-> <<"com.old">>],
      [k \in {"Identifier", "Name"} |-> IF k = "Name" THEN <<"Old">> ELSE <<"com.old">>] }

\* every record a run can hold in memory
Records == UNION {[K -> {<<"com.old">>, <<"com.new">>, <<"Old">>, <<"New">>}] : K \in SUBSET Keys}

\* plistlib.loads(file_contents.encode("utf-8")): the record, or the parse error
plist_loads(file_contents) ==
    IF \E r \in Records : plist_dumps(r) = file_contents
    THEN Return(CHOOSE r \in Records : plist_dumps(r) = file_contents)
    ELSE Raise("InvalidFileException")

RECURSIVE YamlLines(_, _)
YamlLines(data, keys) ==
    IF keys = <<>> THEN <<>>
    ELSE (IF Head(keys) \in DOMAIN data
          THEN <<Head(keys), ": ">> \o data[Head(keys)] \o <<LF>>
          ELSE <<>>) \o YamlLines(data, Tail(keys))

\* plist_yaml_from_dict: no record here has a "name" key, so the branch taken is
\* convert(normalize_types(input_data)): one "key: value" line per key
plist_yaml_from_dict(input_data) == YamlLines(input_data, SortedKeys)

\* Python truthiness of an optional string
Truthy(x) == x # None /\ x # <<>>

\* faulty variant: a missing replacement identifier is not an error
modify_identifier_and_name_lenient(plist_data, new_identifier, new_name) ==
    IF "Identifier" \notin DOMAIN plist_data
    THEN Raise("ProcessorError: No Identifier found in recipe.")
    ELSE Return([k \in DOMAIN plist_data \cup (IF Truthy(new_name) THEN {"Name"} ELSE {}) |->
                    IF k = "Identifier" /\ Truthy(new_identifier) THEN new_identifier
                    ELSE IF k = "Name" /\ Truthy(new_name) THEN new_name
                    ELSE plist_data[k]])

\* faulty variant: without a replacement name the record loses its Name
modify_identifier_and_name_unsets_name(plist_data, new_identifier, new_name) ==
    IF "Identifier" \notin DOMAIN plist_data
    THEN Raise("ProcessorError: No Identifier found in recipe.")
    ELSE IF ~Truthy(new_identifier)
    THEN Raise("ProcessorError: No new identifier provided.")
    ELSE Return([k \in IF Truthy(new_name) THEN DOMAIN plist_data \cup {"Name"}
                       ELSE DOMAIN plist_data \ {"Name"} |->
                    IF k = "Identifier" THEN new_identifier
                    ELSE IF k = "Name" THEN new_name
                    ELSE plist_data[k]])

modify_identifier_and_name(plist_data, new_identifier, new_name) ==
    IF "Identifier" \notin DOMAIN plist_data
    THEN Raise("ProcessorError: No Identifier found in recipe.")
    ELSE IF ~Truthy(new_identifier)
    THEN Raise("ProcessorError: No new identifier provided.")
    ELSE Return([k \in DOMAIN plist_data \cup (IF Truthy(new_name) THEN {"Name"} ELSE {}) |->
                    IF k = "Identifier" THEN new_identifier
                    ELSE IF k = "Name" /\ Truthy(new_name) THEN new_name
                    ELSE plist_data[k]])

\* self.env.get(key, default)
EnvGet(e, key, default) == IF e[key] = None THEN default ELSE e[key]

\* process_file from the downloaded text to the open() call: the path it will
\* write and the contents, or the exception raised before anything is written
process_file_contents(e, file_contents, item_path, item_name, dest_path, convert_to_yaml, new_identifier, new_name) ==
    IF EndsWith(item_name, <<".recipe">>)
    THEN LET loaded == plist_loads(file_contents)
             plist_data == modify_identifier_and_name(loaded.val, new_identifier, new_name)
         IN  IF loaded.err # "" THEN Raise(loaded.err)
             ELSE IF plist_data.err # "" THEN Raise(plist_data.err)
             ELSE IF convert_to_yaml
             THEN LET header == generate_comment_header(Repo, item_path, CommitSha, <<"yaml">>)
                      modified_yaml == plist_yaml_from_dict(plist_data.val)
                  IN  Return([dest_path |-> Replace(dest_path, <<".recipe">>, <<".recipe", ".yaml">>),
                              full_contents |-> header.val \o modified_yaml])
             ELSE LET updated_plist_str == plist_dumps(plist_data.val)
                      header == generate_comment_header(Repo, item_path, CommitSha, <<"xml">>)
                  IN  Return([dest_path |-> dest_path,
                              full_contents |-> insert_comment(header.val, updated_plist_str, <<"xml">>)])
    ELSE LET style == EnvGet(e, "comment_style", <<"yaml">>)
             header == generate_comment_header(Repo, item_path, CommitSha, style)
         IN  IF header.err # "" THEN Raise(header.err)
             ELSE Return([dest_path |-> dest_path,
                          full_contents |-> insert_comment(header.val, file_contents, style)])

-----------------------------------------------------------------------------
(* The remote repository, as session.call_api and download_with_curl show it *)

\* one entry of a contents listing
Item(type, dir_path, name) ==
    [type |-> type, path |-> dir_path \o <<"/">> \o name, name |-> name]

\* the entries a listing can hold: name and type
FileNames == {<<"a", ".recipe">>, <<"a", ".recipe", ".yaml">>}
DirNames == {<<"d", ".recipe", "s">>}
OtherNames == {<<"m">>}

Entries(dir_path) ==
    {Item("file", dir_path, n) : n \in FileNames}
      \cup {Item("symlink", dir_path, n) : n \in OtherNames}
      \cup {Item("dir", dir_path, n) : n \in DirNames}

\* sequences of at most n distinct members of S
SeqsUpTo(S, n) ==
    UNION {{q \in [1..k -> S] : \A i, j \in 1..k : i # j => q[i] # q[j]} : k \in 0..n}

\* os.path.basename
Basename(p) ==
    LET slashes == {i \in 1..Len(p) : p[i] = "/"}
    IN  IF slashes = {} THEN p
        ELSE SubSeq(p, (CHOOSE k \in slashes : \A j \in slashes : j <= k) + 1, Len(p))

\* what call_api answers for /repos/{repo}/contents/{path}: a list for a
\* directory, one object for a file (folder_path may name a file; a path that a
\* listing gave as a directory does not), an error status otherwise
Responses(path, is_folder_path, budget) ==
    {[status |-> 200, is_list |-> TRUE, json |-> q] : q \in SeqsUpTo(Entries(path), budget)}
      \cup (IF is_folder_path
            THEN {[status |-> 200, is_list |-> FALSE,
                   json |-> <<[type |-> "file", path |-> path, name |-> Basename(path)]>>]}
            ELSE {})
      \cup {[status |-> 404, is_list |-> FALSE, json |-> <<>>]}

\* what call_api answers for /repos/{repo}/contents (the repository root)
RootResponses ==
    { [status |-> 200, is_list |-> TRUE,
       json |-> <<Item("file", <<>>, <<"LICENSE", ".md">>), Item("dir", <<>>, <<"LICENSE">>)>>],
      [status |-> 200, is_list |-> TRUE, json |-> <<Item("file", <<>>, <<"License">>)>>],
      [status |-> 200, is_list |-> FALSE, json |-> <<>>],
      [status |-> 404, is_list |-> FALSE, json |-> <<>>] }

PlainLong == <<"w", LF, "x", LF, "y", LF, "z">>
PlainShort == <<"w", LF>>
DownloadFailed == <<"<curl failed>">>

\* what download_text_file reads for an entry, or DownloadFailed
Downloads(item_name) ==
    {DownloadFailed} \cup
    (IF EndsWith(item_name, <<".recipe">>)
     THEN {plist_dumps(r) : r \in SourceRecords} \cup {PlainShort}
     ELSE {PlainLong, PlainShort})

-----------------------------------------------------------------------------
(* The run *)

LowerToken(t) ==
    CASE t = "LICENSE" -> "license"
      [] t = "License" -> "license"
      [] OTHER -> t

\* str.lower()
Lower(s) == [i \in 1..Len(s) |-> LowerToken(s[i])]

\* faulty variant: the type of the entry is not looked at
is_license_item_anytype(item) == Lower(item.name) = <<"license">>

\* the test check_root_for_license makes on one entry of the root listing
is_license_item(item) == item.type = "file" /\ Lower(item.name) = <<"license">>

check_root_for_license(response) ==
    IF response.status # 200 \/ ~response.is_list
    THEN Raise("ProcessorError: GitHub API error while checking for LICENSE in root")
    ELSE Return(\E i \in 1..Len(response.json) : is_license_item(response.json[i]))

\* one entry of the log of the run: a root license query ("license"), a listing
\* call of the walk with its status ("list") followed by the entries it returned,
\* in the order returned, each with its type ("entry"), a download with the path
\* vendor_path computed for the entry and the text read ("download"), a file
\* written with its path and contents ("write"), a skipped entry ("skip")
Event(op, path, dest, data) == [op |-> op, path |-> path, dest |-> dest, data |-> data]

StatusText(status) == IF status = 200 THEN <<"200">> ELSE <<"404">>

\* the log of one listing call: the call, then what it returned
Listed(path, response) ==
    <<Event("list", path, <<>>, StatusText(response.status))>>
      \o [i \in 1..Len(response.json) |->
            Event("entry", response.json[i].path, <<>>, <<response.json[i].type>>)]

Frame(path, rel_base) ==
    [path |-> path, rel_base |-> rel_base, listed |-> FALSE,
     items |-> <<>>, vendorer_paths |-> <<>>]

Top == stack[Len(stack)]

\* an exception propagates out of main: the call stack unwinds
Fail(e) ==
    /\ pc' = "failed"
    /\ error' = e
    /\ stack' = <<>>

\* os.makedirs(os.path.dirname(dest_path), exist_ok=True) and open(dest_path, "w")
\* followed by f.write: the file system after them, and the exception if one is raised
WriteFile(fs_files, fs_dirs, dest_path, full_contents) ==
    LET d == Dirname(dest_path)
        made == fs_dirs \cup Ancestors(d)
    IN  IF d = <<>>
        THEN [err |-> "FileNotFoundError", files |-> fs_files, dirs |-> fs_dirs]
        ELSE IF Ancestors(d) \cap DOMAIN fs_files # {}
        THEN [err |-> "FileExistsError", files |-> fs_files, dirs |-> fs_dirs]
        ELSE IF dest_path \in made
        THEN [err |-> "IsADirectoryError", files |-> fs_files, dirs |-> made]
        ELSE [err |-> "", files |-> (dest_path :> full_contents) @@ fs_files, dirs |-> made]

EnvDomain ==
    [ folder_path : {<<"R">>},
      destination_path : {<<"/", "out">>},
      comment_style : {None, <<"xml">>, <<"html">>},
      convert_to_yaml : BOOLEAN,
      new_identifier : {None, <<>>, <<"com.new">>},
      new_name : {None, <<"New">>},
      fail_if_license_missing : BOOLEAN ]

NoCall == [header |-> <<>>, content |-> <<>>, style |-> <<>>, called |-> FALSE, result |-> <<>>]

Init ==
    /\ env \in EnvDomain
    /\ root \in RootResponses
    /\ pc = "start"
    /\ stack = <<>>
    /\ files = <<>>
    /\ dirs = {}
    /\ events = <<>>
    /\ remote = {}
    /\ summary = [produced |-> FALSE, vendored_paths |-> <<>>]
    /\ error = ""
    /\ ic = NoCall

\* main up to the call of vendor_path
main_start ==
    /\ pc = "start"
    /\ dirs' = dirs \cup Ancestors(env.destination_path)
    /\ events' = Append(events, Event("license", <<>>, <<>>, StatusText(root.status)))
    /\ LET license_found == check_root_for_license(root)
       IN  IF license_found.err # "" THEN Fail(license_found.err)
           ELSE IF env.fail_if_license_missing /\ ~license_found.val
           THEN Fail("ProcessorError: LICENSE file not found in the root of the repository.")
           ELSE /\ pc' = "walk"
                /\ stack' = <<Frame(env.folder_path, <<>>)>>
                /\ error' = error
    /\ UNCHANGED <<env, root, files, remote, summary, ic>>

\* faulty variant: a listing that fails below folder_path counts as an empty directory
vendor_path_list_swallow ==
    /\ pc = "walk"
    /\ ~Top.listed
    /\ \E response \in Responses(Top.path, Len(stack) = 1, MaxItems - Cardinality(remote)) :
         /\ events' = events \o Listed(Top.path, response)
         /\ IF response.status # 200 /\ Len(stack) = 1
            THEN Fail("ProcessorError: GitHub API error") /\ remote' = remote
            ELSE /\ stack' = [stack EXCEPT ![Len(stack)].listed = TRUE,
                                           ![Len(stack)].items = response.json]
                 /\ remote' = remote \cup {response.json[i] : i \in 1..Len(response.json)}
                 /\ UNCHANGED <<pc, error>>
    /\ UNCHANGED <<env, root, files, dirs, summary, ic>>

\* vendor_path from its entry to the start of the loop
vendor_path_list ==
    /\ pc = "walk"
    /\ ~Top.listed
    /\ \E response \in Responses(Top.path, Len(stack) = 1, MaxItems - Cardinality(remote)) :
         /\ events' = events \o Listed(Top.path, response)
         /\ IF response.status # 200
            THEN Fail("ProcessorError: GitHub API error") /\ remote' = remote
            ELSE /\ stack' = [stack EXCEPT ![Len(stack)].listed = TRUE,
                                           ![Len(stack)].items = response.json]
                 /\ remote' = remote \cup {response.json[i] : i \in 1..Len(response.json)}
                 /\ UNCHANGED <<pc, error>>
    /\ UNCHANGED <<env, root, files, dirs, summary, ic>>

\* faulty variant: an entry that follows a directory and is not one itself is
\* taken before the directory is walked
vendor_path_dir_deferred ==
    /\ pc = "walk"
    /\ Top.listed /\ Top.items # <<>>
    /\ LET item == Head(Top.items)
           rel_path == PathJoin(Top.rel_base, item.name)
       IN  /\ item.type = "dir"
           /\ IF Len(Top.items) > 1 /\ Top.items[2].type # "dir"
              THEN stack' = [stack EXCEPT ![Len(stack)].items =
                                <<Top.items[2], item>> \o Tail(Tail(Top.items))]
              ELSE stack' = Append(stack, Frame(item.path, rel_path))
    /\ UNCHANGED <<env, root, pc, files, dirs, events, remote, summary, error, ic>>

\* the loop body for an entry of type "dir": the recursive call
vendor_path_dir ==
    /\ pc = "walk"
    /\ Top.listed /\ Top.items # <<>>
    /\ LET item == Head(Top.items)
           rel_path == PathJoin(Top.rel_base, item.name)
       IN  /\ item.type = "dir"
           /\ stack' = Append(stack, Frame(item.path, rel_path))
    /\ UNCHANGED <<env, root, pc, files, dirs, events, remote, summary, error, ic>>

\* what the caller's frame is once the recursive call has returned child_paths:
\* the call's value is not used
AfterChild(frame, child_paths) ==
    [frame EXCEPT !.items = Tail(frame.items)]

\* the recursive call returns to the loop of its caller
vendor_path_return ==
    /\ pc = "walk"
    /\ Len(stack) > 1
    /\ Top.listed /\ Top.items = <<>>
    /\ stack' = Append(SubSeq(stack, 1, Len(stack) - 2),
                        AfterChild(stack[Len(stack) - 1], Top.vendorer_paths))
    /\ UNCHANGED <<env, root, pc, files, dirs, events, remote, summary, error, ic>>

\* the loop body for an entry of type "file": process_file, then the append
vendor_path_file ==
    /\ pc = "walk"
    /\ Top.listed /\ Top.items # <<>>
    /\ LET item == Head(Top.items)
           rel_path == PathJoin(Top.rel_base, item.name)
           dest_path == PathJoin(env.destination_path, rel_path)
       IN  /\ item.type = "file"
           /\ \E file_contents \in Downloads(item.name) :
                LET out == process_file_contents(env, file_contents, item.path, item.name,
                               dest_path, env.convert_to_yaml, env.new_identifier, env.new_name)
                    fs == WriteFile(files, dirs, out.val.dest_path, out.val.full_contents)
                    downloaded == Append(events, Event("download", item.path, dest_path, file_contents))
                IN  IF file_contents = DownloadFailed
                    THEN /\ Fail("ProcessorError: Failed to download")
                         /\ events' = downloaded
                         /\ UNCHANGED <<files, dirs>>
                    ELSE IF out.err # ""
                    THEN /\ Fail(out.err)
                         /\ events' = downloaded
                         /\ UNCHANGED <<files, dirs>>
                    ELSE IF fs.err # ""
                    THEN /\ Fail(fs.err)
                         /\ events' = downloaded
                         /\ files' = fs.files
                         /\ dirs' = fs.dirs
                    ELSE /\ files' = fs.files
                         /\ dirs' = fs.dirs
                         /\ events' = Append(downloaded, Event("write", item.path, out.val.dest_path, out.val.full_contents))
                         /\ stack' = [stack EXCEPT
                                ![Len(stack)].items = Tail(@),
                                ![Len(stack)].vendorer_paths = Append(@, dest_path)]
                         /\ UNCHANGED <<pc, error>>
    /\ UNCHANGED <<env, root, remote, summary, ic>>

\* faulty variant: an entry of an unknown type is an error
vendor_path_skip_fatal ==
    /\ pc = "walk"
    /\ Top.listed /\ Top.items # <<>>
    /\ Head(Top.items).type \notin {"dir", "file"}
    /\ Fail("ProcessorError: unknown type")
    /\ UNCHANGED <<env, root, files, dirs, events, remote, summary, ic>>

\* the loop body for an entry of any other type: a log line
vendor_path_skip ==
    /\ pc = "walk"
    /\ Top.listed /\ Top.items # <<>>
    /\ LET item == Head(Top.items)
       IN  /\ item.type \notin {"dir", "file"}
           /\ events' = Append(events, Event("skip", item.path, <<>>, <<>>))
           /\ stack' = [stack EXCEPT ![Len(stack)].items = Tail(@)]
    /\ UNCHANGED <<env, root, pc, files, dirs, remote, summary, error, ic>>

\* the outermost vendor_path returns and main writes its outputs
main_finish ==
    /\ pc = "walk"
    /\ Len(stack) = 1
    /\ Top.listed /\ Top.items = <<>>
    /\ summary' = [produced |-> TRUE, vendored_paths |-> Top.vendorer_paths]
    /\ pc' = "done"
    /\ stack' = <<>>
    /\ UNCHANGED <<env, root, files, dirs, events, remote, error, ic>>

Next ==
    \/ main_start
    \/ vendor_path_list
    \/ vendor_path_dir
    \/ vendor_path_file
    \/ vendor_path_skip
    \/ vendor_path_return
    \/ main_finish

Spec == Init /\ [][Next]_vars

-----------------------------------------------------------------------------
(* insert_comment on its own: every content of at most MaxLen characters *)

Alphabet == {"x", LF, CR}
Contents == UNION {[1..n -> Alphabet] : n \in 0..MaxLen}
Styles == {<<"xml">>, <<"yaml">>, <<"html">>}
Headers == {<<"<!--", LF, "-->", LF, LF>>, <<"#", LF, LF>>}

InsertInit ==
    /\ ic \in [header : Headers, content : Contents, style : Styles,
                called : {FALSE}, result : {<<>>}]
    /\ env = CHOOSE e \in EnvDomain : TRUE
    /\ root = CHOOSE r \in RootResponses : TRUE
    /\ pc = "insert_comment"
    /\ stack = <<>>
    /\ files = <<>>
    /\ dirs = {}
    /\ events = <<>>
    /\ remote = {}
    /\ summary = [produced |-> FALSE, vendored_paths |-> <<>>]
    /\ error = ""

insert_comment_call ==
    /\ pc = "insert_comment"
    /\ ~ic.called
    /\ ic' = [ic EXCEPT !.called = TRUE,
                        !.result = insert_comment(ic.header, ic.content, ic.style)]
    /\ UNCHANGED <<env, root, pc, stack, files, dirs, events, remote, summary, error>>

InsertNext == insert_comment_call

InsertSpec == InsertInit /\ [][InsertNext]_vars

-----------------------------------------------------------------------------
(* What the log says *)

EventsOf(op) == {i \in DOMAIN events : events[i].op = op}

Count(op, path) == Cardinality({i \in EventsOf(op) : events[i].path = path})

FileItems == {it \in remote : it.type = "file"}

\* the entry is still waiting in the loop of some frame
Pending(it) ==
    \E k \in DOMAIN stack : \E j \in DOMAIN stack[k].items : stack[k].items[j] = it

\* the destination path vendor_path computed for the entry
DestinationsOf(it) ==
    {events[i].dest : i \in {j \in EventsOf("download") : events[j].path = it.path}}

IsRecipePath(path) == EndsWith(path, <<".recipe">>)

\* the entry's path below folder_path (the entry's name when folder_path is a file)
RelativeOf(it) ==
    IF it.path = env.folder_path THEN it.name
    ELSE SubSeq(it.path, Len(env.folder_path) + 2, Len(it.path))

\* destination_path joined with the relative path, the final ".recipe" alone
\* becoming ".recipe.yaml" for a converted recipe
ExpectedPath(it) ==
    LET joined == env.destination_path \o <<"/">> \o RelativeOf(it)
    IN  IF IsRecipePath(it.name) /\ env.convert_to_yaml
        THEN SubSeq(joined, 1, Len(joined) - 1) \o <<".recipe", ".yaml">>
        ELSE joined

ItemAt(path) == CHOOSE it \in remote : it.path = path

-----------------------------------------------------------------------------
(* Claims *)

\* C1: after a successful run the manifest holds exactly one destination path
\* for every entry of type "file" under folder_path, at any depth.
C1_ManifestHasEveryFile ==
    pc = "done" =>
        \A it \in FileItems :
            Cardinality({i \in DOMAIN summary.vendored_paths :
                            summary.vendored_paths[i] \in DestinationsOf(it)}) = 1

\* C2: after a successful run every path of the manifest is a path a file was
\* written to during the run.
C2_ManifestPathsWritten ==
    pc = "done" =>
        \A i \in DOMAIN summary.vendored_paths :
            /\ summary.vendored_paths[i] \in DOMAIN files
            /\ \E j \in EventsOf("write") : events[j].dest = summary.vendored_paths[i]

C3_Counts ==
    /\ \A it \in remote : Count("download", it.path) <= 1 /\ Count("write", it.path) <= 1
    /\ \A it \in remote : it.type # "file" =>
            Count("download", it.path) = 0 /\ Count("write", it.path) = 0
    /\ pc \in {"walk", "done"} =>
         /\ error = ""
         /\ \A it \in FileItems :
              IF Pending(it)
              THEN Count("download", it.path) = 0 /\ Count("write", it.path) = 0
              ELSE Count("download", it.path) = 1 /\ Count("write", it.path) = 1
    /\ pc = "failed" => error # ""

C3_SkipStep ==
    (/\ pc = "walk" /\ stack # <<>>
     /\ Top.listed /\ Top.items # <<>>
     /\ Head(Top.items).type \notin {"file", "dir"})
    => /\ pc' = "walk" /\ error' = ""
       /\ files' = files
       /\ stack' = [stack EXCEPT ![Len(stack)].items = Tail(@)]
       /\ \A i \in (DOMAIN events') \ (DOMAIN events) : events'[i].op = "skip"

\* C3: every entry of type "file" the walk has gone past was downloaded once and
\* written once, unless the run failed; an entry of another type than "file" and
\* "dir" is neither downloaded nor written, raises nothing, and the loop goes on
\* with the next entry.
C3_EachFileOnceOthersSkipped == []C3_Counts /\ [][C3_SkipStep]_vars

\* C3 witness: a run that skipped an entry, then wrote the entry after it, and ended well
C3_Witness ==
    /\ pc = "done"
    /\ \E i \in EventsOf("skip") : \E j \in EventsOf("write") : i < j

\* C4: a file is written to destination_path joined with the entry's relative
\* path, only the final ".recipe" of a converted recipe becoming ".recipe.yaml".
C4_WrittenPathIsJoinedPath ==
    \A j \in EventsOf("write") : events[j].dest = ExpectedPath(ItemAt(events[j].path))

\* C5: two entries are never written to the same path in one run.
C5_WrittenPathsDistinct ==
    \A i, j \in EventsOf("write") : i # j => events[i].dest # events[j].dest

LicenseNames == {<<"LICENSE">>, <<"License">>, <<"license">>}

RootHasLicenseFile ==
    \E i \in DOMAIN root.json :
        root.json[i].type = "file" /\ root.json[i].name \in LicenseNames

\* C6: the root license query is made once, before anything else the run does;
\* with fail_if_license_missing set and no file named LICENSE (in any case) in
\* the root listing, the run fails with nothing written and no summary.
C6_LicenseGateFirst ==
    /\ Cardinality(EventsOf("license")) = (IF pc = "start" THEN 0 ELSE 1)
    /\ events # <<>> => events[1].op = "license"
    /\ pc = "start" => events = <<>> /\ files = <<>>
    /\ (/\ pc # "start"
        /\ env.fail_if_license_missing
        /\ root.status = 200 /\ root.is_list
        /\ ~RootHasLicenseFile)
       => /\ pc = "failed"
          /\ files = <<>>
          /\ ~summary.produced
          /\ Len(events) = 1

\* C6 witness: the gate stopped a run whose root listing has no LICENSE file
C6_Witness ==
    /\ pc = "failed"
    /\ env.fail_if_license_missing
    /\ root.status = 200 /\ root.is_list /\ ~RootHasLicenseFile
    /\ Len(events) = 1

\* C7: without fail_if_license_missing the run reaches the walk whatever the
\* root license query answers.
C7_NoPolicyNeverBlocks ==
    (~env.fail_if_license_missing /\ pc \in {"failed", "done"}) => EventsOf("list") # {}

\* the values the text gives the key Identifier, in the plist or the YAML form
IdentifiersIn(text) ==
    {<<text[i + 2]>> : i \in {k \in 1..(Len(text) - 2) :
                                 text[k] = "Identifier" /\ text[k + 1] = ": "}}
      \cup {<<text[i + 4]>> : i \in {k \in 1..(Len(text) - 4) :
                                 text[k] = "Identifier" /\ text[k + 1] = "</key>"}}

C8_Step ==
    \A i \in (DOMAIN events') \ (DOMAIN events) :
        LET e == events'[i]
            loaded == plist_loads(e.data)
        IN  /\ (e.op = "write" /\ IsRecipePath(e.path))
               => /\ Truthy(env.new_identifier)
                  /\ IdentifiersIn(e.data) = {env.new_identifier}
                  /\ e.dest \in DOMAIN files' /\ files'[e.dest] = e.data
            /\ (/\ e.op = "download" /\ IsRecipePath(e.path)
                /\ loaded.err = ""
                /\ (~Truthy(env.new_identifier) \/ "Identifier" \notin DOMAIN loaded.val))
               => /\ pc' = "failed" /\ error' # ""
                  /\ files' = files /\ dirs' = dirs
                  /\ \A j \in (DOMAIN events') \ (DOMAIN events) : events'[j].op # "write"

\* C8: a recipe that is written carries the replacement identifier; a recipe
\* without an Identifier key, or a run without a replacement identifier (None or
\* empty), fails at that file with the file system left as it was.
C8_IdentifierRewritten == [][C8_Step]_vars

\* C8 witness: a recipe with Identifier com.old was downloaded and written
C8_Witness ==
    \E i \in EventsOf("download") : \E j \in EventsOf("write") :
        /\ events[i].path = events[j].path
        /\ IsRecipePath(events[i].path)
        /\ IdentifiersIn(events[i].data) = {<<"com.old">>}
        /\ env.new_identifier = <<"com.new">>

\* the log entry records something the code raises an error for
ErrorEvent(e) ==
    \/ e.op = "list" /\ e.data # <<"200">>
    \/ e.op = "download" /\ e.data = DownloadFailed
    \/ /\ e.op = "download" /\ IsRecipePath(e.path) /\ e.data # DownloadFailed
       /\ \/ plist_loads(e.data).err # ""
          \/ "Identifier" \notin DOMAIN plist_loads(e.data).val
          \/ ~Truthy(env.new_identifier)

C9_Aborted ==
    /\ \A i \in DOMAIN events :
          ErrorEvent(events[i]) => pc = "failed" /\ i = Len(events)
    /\ pc = "failed" => ~summary.produced /\ stack = <<>>

C9_Step ==
    /\ pc = "failed" => UNCHANGED <<pc, events, files, dirs, summary>>
    /\ pc' = "failed" => \A p \in DOMAIN files : p \in DOMAIN files' /\ files'[p] = files[p]

\* C9: a failed listing at any depth, a failed download, an unparsable recipe or
\* an identifier error is the last thing the run does: nothing is listed,
\* downloaded or written after it, no summary is set, and the files written
\* before it stay as they are.
C9_FirstErrorAborts == []C9_Aborted /\ [][C9_Step]_vars

\* C9 witness: a listing below folder_path failed after a file had been written
C9_Witness ==
    /\ pc = "failed"
    /\ files # <<>>
    /\ events[Len(events)].op = "list"
    /\ events[Len(events)].path # env.folder_path

\* the positions at which a line of the text ends: a line feed, a carriage
\* return no line feed follows, or the end of a text that has no break there
LineEnds(text) ==
    {i \in 1..Len(text) :
        \/ text[i] = LF
        \/ text[i] = CR /\ ~(i < Len(text) /\ text[i + 1] = LF)
        \/ i = Len(text)}

\* where the header goes: after the third line of xml content, else in front
HeaderOffset(text, style) ==
    IF style = <<"xml">> /\ Cardinality(LineEnds(text)) >= 3
    THEN CHOOSE k \in LineEnds(text) :
            Cardinality({j \in LineEnds(text) : j <= k}) = 3
    ELSE 0

\* C10: insert_comment puts the header right after the third line of xml
\* content of three lines or more, and in front of any other content; the
\* result without the header is the content.
C10_InsertComment ==
    ic.called =>
        LET k == HeaderOffset(ic.content, ic.style)
            n == Len(ic.header)
        IN  /\ Len(ic.result) = Len(ic.content) + n
            /\ SubSeq(ic.result, 1, k) = SubSeq(ic.content, 1, k)
            /\ SubSeq(ic.result, k + 1, k + n) = ic.header
            /\ SubSeq(ic.result, k + n + 1, Len(ic.result))
                 = SubSeq(ic.content, k + 1, Len(ic.content))

\* C10 witness: xml content of more than three lines went through insert_comment
C10_Witness ==
    /\ ic.called
    /\ ic.style = <<"xml">>
    /\ Cardinality(LineEnds(ic.content)) > 3

\* the indices of the log that follow the listing call at index i and hold what
\* it returned
ReturnedBy(i) ==
    {j \in DOMAIN events :
        /\ j > i
        /\ \A k \in (i + 1)..j : events[k].op = "entry"}

\* the listing call made for the path, if the log has one
ListingOf(path) == {i \in EventsOf("list") : events[i].path = path}

RECURSIVE WalkOf(_)
\* what a depth-first walk in listing order does from the listing of the path
\* on: the listing call, then for each entry returned, in the order returned,
\* the download and the write of a file, the whole walk of a directory, the
\* skip of anything else.  A directory the log has no listing of yet adds nothing.
WalkOf(path) ==
    IF ListingOf(path) = {} THEN <<>>
    ELSE LET i == CHOOSE k \in ListingOf(path) : TRUE
             n == Cardinality(ReturnedBy(i))
             step(e) == IF e.data = <<"file">>
                        THEN <<<<"download", e.path>>, <<"write", e.path>>>>
                        ELSE IF e.data = <<"dir">> THEN WalkOf(e.path)
                        ELSE <<<<"skip", e.path>>>>
         IN  <<<<"list", path>>>> \o Concat([j \in 1..n |-> step(events[i + j])])

\* what the run did, in order: its listing calls, downloads, writes and skips
Done ==
    LET idx == {i \in DOMAIN events : events[i].op \in {"list", "download", "write", "skip"}}
        nth(k) == CHOOSE i \in idx : Cardinality({j \in idx : j <= i}) = k
    IN  [k \in 1..Cardinality(idx) |-> <<events[nth(k)].op, events[nth(k)].path>>]

IsPrefix(s, t) == Len(s) <= Len(t) /\ SubSeq(t, 1, Len(s)) = s

\* the position in the log of the download whose computed path is dest
DownloadAt(dest) == CHOOSE i \in EventsOf("download") : events[i].dest = dest

\* C11: what the run does is, at every moment, the beginning of the depth-first
\* walk in listing order (a directory's subtree wholly before the next sibling,
\* one call at a time, each download followed at once by its write), and the
\* whole of it when the run ends well; the paths of the manifest are in the
\* order in which their files were processed.
C11_DepthFirstListingOrder ==
    /\ IsPrefix(Done, WalkOf(env.folder_path))
    /\ pc = "done" =>
         /\ Done = WalkOf(env.folder_path)
         /\ \A i, j \in DOMAIN summary.vendored_paths :
              /\ \E k \in EventsOf("download") : events[k].dest = summary.vendored_paths[i]
              /\ i < j => DownloadAt(summary.vendored_paths[i]) < DownloadAt(summary.vendored_paths[j])

\* C11 witness: a run ended well that wrote a file inside a directory and then a
\* file that follows the directory in the listing of folder_path
C11_Witness ==
    /\ pc = "done"
    /\ \E i, j \in EventsOf("write") :
         /\ i < j
         /\ Len(events[i].path) > Len(events[j].path)
         /\ Len(summary.vendored_paths) = 1

\* the values the text gives the key Name, in the plist or the YAML form
NamesIn(text) ==
    {<<text[i + 2]>> : i \in {k \in 1..(Len(text) - 2) :
                                 text[k] = "Name" /\ text[k + 1] = ": "}}
      \cup {<<text[i + 4]>> : i \in {k \in 1..(Len(text) - 4) :
                                 text[k] = "Name" /\ text[k + 1] = "</key>"}}

\* the value the record gives the key, as a set: empty when the key is absent
ValueOf(rec, key) == IF key \in DOMAIN rec THEN {rec[key]} ELSE {}

\* the Name a rewritten record must carry: the replacement if one is supplied,
\* else the Name of the source record
ExpectedName(rec) ==
    IF Truthy(env.new_name) THEN {env.new_name} ELSE ValueOf(rec, "Name")

\* the new log entries of a step that are writes
NewWrites == {j \in (DOMAIN events') \ (DOMAIN events) : events'[j].op = "write"}

\* the new log entries of a step that are downloads of a recipe that parses
NewRecipes ==
    {i \in (DOMAIN events') \ (DOMAIN events) :
        /\ events'[i].op = "download" /\ IsRecipePath(events'[i].path)
        /\ plist_loads(events'[i].data).err = ""}

\* the record the downloaded recipe holds
RecordAt(i) == plist_loads(events'[i].data).val

\* with a replacement identifier, what is written carries the expected Name
C12_NameStep ==
    Truthy(env.new_identifier) =>
        \A i \in NewRecipes : \A j \in NewWrites :
            NamesIn(events'[j].data) = ExpectedName(RecordAt(i))

\* without a replacement identifier the recipe is written as it is
C12_UnchangedStep ==
    ~Truthy(env.new_identifier) =>
        \A i \in NewRecipes :
            /\ pc' # "failed"
            /\ NewWrites # {}
            /\ \A j \in NewWrites :
                 /\ IdentifiersIn(events'[j].data) = ValueOf(RecordAt(i), "Identifier")
                 /\ NamesIn(events'[j].data) = ValueOf(RecordAt(i), "Name")

\* without a replacement identifier the recipe is refused
C12_RefusedStep ==
    ~Truthy(env.new_identifier) =>
        \A i \in NewRecipes :
            /\ pc' = "failed"
            /\ error' = (IF "Identifier" \in DOMAIN RecordAt(i)
                         THEN "ProcessorError: No new identifier provided."
                         ELSE "ProcessorError: No Identifier found in recipe.")
            /\ NewWrites = {}
            /\ files' = files

\* C12 as claimed: without a replacement identifier a recipe, with or without
\* an Identifier key, is vendored with Identifier and Name unchanged and no
\* error; with one, Name becomes the replacement name if one is supplied and is
\* otherwise the Name of the source record.
C12_RewriteOptional == [][C12_UnchangedStep /\ C12_NameStep]_vars

\* C12 as amended: without a replacement identifier (None or empty) a recipe
\* that parses, with or without an Identifier key, fails with a ProcessorError
\* and nothing is written for it; with one, Name becomes the replacement name if
\* one is supplied and is otherwise the Name of the source record.
C12_RewriteMandatory == [][C12_RefusedStep /\ C12_NameStep]_vars

\* C12 witness: a recipe holding an Identifier and a Name was refused for want
\* of a replacement identifier
C12_Witness ==
    /\ pc = "failed"
    /\ env.new_identifier = None
    /\ events # <<>>
    /\ LET e == events[Len(events)]
       IN  /\ e.op = "download" /\ IsRecipePath(e.path)
           /\ IdentifiersIn(e.data) = {<<"com.old">>}
           /\ NamesIn(e.data) = {<<"Old">>}

====
